---- MODULE Spec2Model ----
(***************************************************************************)
(* Model of the BIM override core of poc-bim-viewer:                       *)
(*   - buildPathMapping / generateEnhancedTreeData (pathGenerator)         *)
(*   - BIMSettingsStore (bimSettings.svelte.ts) over the Dexie table       *)
(*     bimSettings (database.ts)                                           *)
(*   - the zod import schema (schemas/bimSettings.ts)                      *)
(* Strings whose characters matter (node names, paths, version tags) are   *)
(* sequences of one-character strings.                                     *)
(***************************************************************************)
EXTENDS Integers, Sequences, FiniteSets, TLC

VARIABLES
    \* ---- buildPathMapping run ----
    tree,           \* the Object3D tree handed to buildPathMapping
    stack,          \* pending traverse(node, parentPath) calls, next call first
    pathMap,        \* Map<uuid, NodePath> built so far
    nameCounters,   \* Map<counterKey, number>
    pc,             \* "idle" | "run" | "done"
    yields,         \* times the running traversal gave the main thread back
    returned,       \* the maps the finished runs returned, oldest first (history)
    \* ---- BrowseSidebar ----
    startingItems,  \* startingItems of the filter run in progress
    filteredTreeData, \* filteredTreeData, the filter's result
    browsePc,       \* "idle" | "roots" | "done"
    \* ---- BIMSettingsStore ----
    settings,       \* _settings : BIMSettings | null
    pathMapping,    \* _pathMapping
    enhancedTreeData, \* _enhancedTreeData
    sceneRoot,      \* _sceneRoot
    db,             \* Dexie table bimSettings, keyed by the record's modelKey
    clock,          \* the caller's clock, read by new Date()
    last,           \* record of the last store call (history)
    prev,           \* record of the store call before it (history, kept
                    \* only in behaviours that start with prev = NoCall)
    pending         \* the initForModel calls that are suspended at an await
                    \* or have run to their end: modelKey -> position

vars == <<tree, stack, pathMap, nameCounters, pc, yields, returned,
          startingItems, filteredTreeData, browsePc,
          settings, pathMapping, enhancedTreeData, sceneRoot, db, clock, last, prev,
          pending>>

pathVars == <<tree, stack, pathMap, nameCounters, pc, yields, returned>>
browseVars == <<startingItems, filteredTreeData, browsePc>>
storeVars == <<settings, pathMapping, enhancedTreeData, sceneRoot, db, clock, last, prev,
               pending>>

----------------------------------------------------------------------------
\* Bounds of the model

MaxNodes == 4

MaxClock == 3

----------------------------------------------------------------------------
\* Small helpers

EmptyMap == [x \in {} |-> 0]

Put(m, k, v) == [x \in DOMAIN m \cup {k} |-> IF x = k THEN v ELSE m[x]]

Drop(m, k) == [x \in DOMAIN m \ {k} |-> m[x]]

DigitChars == <<"0", "1", "2", "3", "4", "5", "6", "7", "8", "9">>

RECURSIVE NumToStr(_)
\* number -> decimal text, as a template literal formats it
NumToStr(n) ==
    IF n < 10 THEN <<DigitChars[n + 1]>>
    ELSE NumToStr(n \div 10) \o <<DigitChars[(n % 10) + 1]>>

----------------------------------------------------------------------------
\* Object3D trees.  Node 1 is the root; parent[i] < i; the children of a
\* node are ordered by id.  uuid of node i is i.

NameA   == <<"A">>
NameA1  == <<"A", "[", "1", "]">>
NameB   == <<"B">>
NameAB  == <<"A", "/", "B">>
NoName  == <<>>

\* (name, type) pairs a node may carry
Labels ==
    { [name |-> NameA,  type |-> <<"M">>],
      [name |-> NameA1, type |-> <<"M">>],
      [name |-> NameB,  type |-> <<"M">>],
      [name |-> NameAB, type |-> <<"M">>],
      [name |-> NoName, type |-> <<"A">>] }

RootLabel == [name |-> <<"R">>, type |-> <<"G">>]

\* the trees of at most maxNodes nodes
Trees(maxNodes) ==
    UNION { { [n |-> n, parent |-> p, label |-> l, visible |-> [i \in 1..n |-> TRUE]] :
                p \in { q \in [2..n -> 1..n] : \A i \in 2..n : q[i] < i },
                l \in { m \in [1..n -> Labels \cup {RootLabel}] :
                          m[1] = RootLabel /\ \A i \in 2..n : m[i] \in Labels } } :
            n \in 1..maxNodes }

RECURSIVE ChildrenFrom(_, _, _)
ChildrenFrom(t, i, j) ==
    IF j > t.n THEN <<>>
    ELSE (IF t.parent[j] = i THEN <<j>> ELSE <<>>) \o ChildrenFrom(t, i, j + 1)

\* node.children, in order; an object graph that is no tree carries its
\* child lists itself
Children(t, i) == IF "children" \in DOMAIN t THEN t.children[i] ELSE ChildrenFrom(t, i, 2)

----------------------------------------------------------------------------
\* buildPathMapping

BaseName(t, i) == IF t.label[i].name # <<>> THEN t.label[i].name ELSE t.label[i].type

CounterKey(parentPath, baseName) == parentPath \o <<":", ":">> \o baseName

PathPrefix(parentPath, baseName) ==
    IF parentPath # <<>> THEN parentPath \o <<"/">> \o baseName ELSE baseName

FinalPath(parentPath, baseName, count) ==
    IF count > 0
    THEN PathPrefix(parentPath, baseName) \o <<"[">> \o NumToStr(count) \o <<"]">>
    ELSE PathPrefix(parentPath, baseName)

CountOf(counters, key) == IF key \in DOMAIN counters THEN counters[key] ELSE 0

RECURSIVE Frames(_, _)
Frames(nodes, parentPath) ==
    IF nodes = <<>> THEN <<>>
    ELSE <<[node |-> Head(nodes), parentPath |-> parentPath]>>
         \o Frames(Tail(nodes), parentPath)

\* one call of traverse(node, parentPath) up to its recursive calls: st is
\* [stack, pathMap, nameCounters]; the children's calls go in front of the
\* calls still pending, which is the order the recursion runs them in
TraverseStep(t, st) ==
    LET f         == Head(st.stack)
        baseName  == BaseName(t, f.node)
        key       == CounterKey(f.parentPath, baseName)
        count     == CountOf(st.nameCounters, key)
        finalPath == FinalPath(f.parentPath, baseName, count)
    IN  [stack        |-> Frames(Children(t, f.node), finalPath) \o Tail(st.stack),
         pathMap      |-> Put(st.pathMap, f.node, finalPath),
         nameCounters |-> Put(st.nameCounters, key, count + 1)]

RECURSIVE RunTraverse(_, _)
RunTraverse(t, st) ==
    IF st.stack = <<>> THEN st ELSE RunTraverse(t, TraverseStep(t, st))

\* the whole of buildPathMapping(object)
BuildPathMapping(t) ==
    RunTraverse(t, [stack        |-> <<[node |-> 1, parentPath |-> <<>>]>>,
                    pathMap      |-> EmptyMap,
                    nameCounters |-> EmptyMap]).pathMap

----------------------------------------------------------------------------
\* generateEnhancedTreeData

Undefined == "undefined"

Fields == {"displayName", "visible", "menu", "properties"}

EmptyObject == [f \in {} |-> Undefined]

\* pathMap.get(child.uuid) || child.uuid
UuidText(i) == <<"#">> \o NumToStr(i)

PathOrUuid(pm, i) == IF i \in DOMAIN pm /\ pm[i] # <<>> THEN pm[i] ELSE UuidText(i)

\* override?.f ?? dflt
FieldOr(ov, path, f, dflt) ==
    IF path \in DOMAIN ov /\ f \in DOMAIN ov[path] THEN ov[path][f] ELSE dflt

\* variant: !!override
HasOverridesAnyEntry(ov, path) == path \in DOMAIN ov

\* !!override && Object.keys(override).length > 0
HasOverrides(ov, path) == path \in DOMAIN ov /\ Cardinality(DOMAIN ov[path]) > 0

\* override?.visible ?? child.visible
EffectiveVisible(t, i, ov, path) == FieldOr(ov, path, "visible", t.visible[i])

RECURSIVE EnhancedItems(_, _, _, _)
\* the items built for the nodes in `nodes` (the children of one object)
EnhancedItems(t, nodes, pm, ov) ==
    IF nodes = <<>> THEN <<>>
    ELSE LET child == Head(nodes)
             path == PathOrUuid(pm, child)
             originalName == BaseName(t, child)
         IN  << [id           |-> child,
                 path         |-> path,
                 originalName |-> originalName,
                 displayName  |-> FieldOr(ov, path, "displayName", originalName),
                 type         |-> t.label[child].type,
                 visible      |-> EffectiveVisible(t, child, ov, path),
                 properties   |-> FieldOr(ov, path, "properties", EmptyObject),
                 menu         |-> FieldOr(ov, path, "menu", Undefined),
                 hasOverrides |-> HasOverrides(ov, path),
                 children     |-> EnhancedItems(t, Children(t, child), pm, ov)] >>
             \o EnhancedItems(t, Tail(nodes), pm, ov)

GenerateEnhancedTreeData(t, pm, ov) == EnhancedItems(t, Children(t, 1), pm, ov)

RECURSIVE FlattenItems(_)
\* every item of an enhanced forest, in pre-order (used to state properties)
FlattenItems(items) ==
    IF items = <<>> THEN <<>>
    ELSE <<Head(items)>> \o FlattenItems(Head(items).children)
         \o FlattenItems(Tail(items))

----------------------------------------------------------------------------
\* JSON values: what JSON.stringify writes and JSON.parse reads back

JStr(s) == [t |-> "str", s |-> s]
JBool(b) == [t |-> "bool", b |-> b]
JObj(o) == [t |-> "obj", o |-> o]

\* a text handed to JSON.parse: either not JSON at all, or the text of a value
Garbage == [syntaxOk |-> FALSE]
TextOf(v) == [syntaxOk |-> TRUE, value |-> v]

\* an ISO timestamp is represented by the clock reading it names
Iso(n) == n

FieldToJSON(f, v) ==
    CASE f = "visible" -> JBool(v)
      [] f = "properties" -> JObj([k \in DOMAIN v |-> JStr(v[k])])
      [] OTHER -> JStr(v)

OverrideToJSON(e) == JObj([f \in DOMAIN e |-> FieldToJSON(f, e[f])])

SettingsToJSON(s) ==
    JObj([k \in {"modelKey", "createdAt", "updatedAt", "nodeOverrides"} |->
            CASE k = "nodeOverrides" ->
                   JObj([p \in DOMAIN s.nodeOverrides |-> OverrideToJSON(s.nodeOverrides[p])])
              [] OTHER -> JStr(s[k])])

Version100 == <<"1", ".", "0", ".", "0">>

\* exportSettings() on a loaded document: JSON.stringify(exportData, null, 2)
ExportText(s, now) ==
    TextOf(JObj([k \in {"version", "modelKey", "exportedAt", "settings"} |->
            CASE k = "version" -> JStr(Version100)
              [] k = "modelKey" -> JStr(s.modelKey)
              [] k = "exportedAt" -> JStr(Iso(now))
              [] OTHER -> SettingsToJSON(s)]))

----------------------------------------------------------------------------
\* The zod schemas.  Each validator returns the set of issue paths.

Digits == {DigitChars[i] : i \in 1..10}

IsDigits(s) == Len(s) > 0 /\ \A i \in 1..Len(s) : s[i] \in Digits

\* /^\d+\.\d+\.\d+$/
SemverMatch(s) ==
    \E i \in 1..Len(s) : \E j \in 1..Len(s) :
        /\ i < j
        /\ s[i] = "." /\ s[j] = "."
        /\ IsDigits(SubSeq(s, 1, i - 1))
        /\ IsDigits(SubSeq(s, i + 1, j - 1))
        /\ IsDigits(SubSeq(s, j + 1, Len(s)))

MenuModes == {"root", "disabled", "hide"}

IsStr(v) == v.t = "str"
IsObj(v) == v.t = "obj"

\* the four optional fields of NodeOverridesSchema
OverrideFieldIssues(f, v) ==
    CASE f = "displayName" -> IF IsStr(v) THEN {} ELSE {<<f>>}
      [] f = "visible" -> IF v.t = "bool" THEN {} ELSE {<<f>>}
      [] f = "menu" -> IF IsStr(v) /\ v.s \in MenuModes THEN {} ELSE {<<f>>}
      [] f = "properties" ->
            IF ~IsObj(v) THEN {<<f>>}
            ELSE {<<f, k>> : k \in {x \in DOMAIN v.o : ~IsStr(v.o[x])}}

\* variant: z.object({...}) without .strict()
NodeOverridesIssuesLoose(v) ==
    IF v.t # "obj" THEN {<<>>}
    ELSE UNION {OverrideFieldIssues(f, v.o[f]) : f \in DOMAIN v.o \cap Fields}

\* NodeOverridesSchema: z.object({...}).strict()
NodeOverridesIssues(v) ==
    IF ~IsObj(v) THEN {<<>>}
    ELSE UNION {OverrideFieldIssues(f, v.o[f]) : f \in DOMAIN v.o \cap Fields}
         \cup (IF DOMAIN v.o \subseteq Fields THEN {} ELSE {<<>>})

Prefixed(pre, issues) == {pre \o i : i \in issues}

Required(o, k) == IF k \in DOMAIN o THEN {} ELSE {<<k>>}

\* BIMSettingsSchema: z.object({...}); keys it does not name are stripped
BIMSettingsIssues(v) ==
    IF ~IsObj(v) THEN {<<>>}
    ELSE UNION {Required(v.o, k) : k \in {"modelKey", "createdAt", "updatedAt", "nodeOverrides"}}
         \cup (IF "modelKey" \in DOMAIN v.o /\ ~(IsStr(v.o.modelKey) /\ v.o.modelKey.s # "")
               THEN {<<"modelKey">>} ELSE {})
         \cup (IF "createdAt" \in DOMAIN v.o /\ ~IsStr(v.o.createdAt)
               THEN {<<"createdAt">>} ELSE {})
         \cup (IF "updatedAt" \in DOMAIN v.o /\ ~IsStr(v.o.updatedAt)
               THEN {<<"updatedAt">>} ELSE {})
         \cup (IF "nodeOverrides" \in DOMAIN v.o
               THEN IF ~IsObj(v.o.nodeOverrides) THEN {<<"nodeOverrides">>}
                    ELSE UNION {Prefixed(<<"nodeOverrides", p>>,
                                         NodeOverridesIssues(v.o.nodeOverrides.o[p])) :
                                p \in DOMAIN v.o.nodeOverrides.o}
               ELSE {})

\* BIMSettingsExportSchema: z.object({...}); keys it does not name are stripped
BIMSettingsExportIssues(v) ==
    IF ~IsObj(v) THEN {<<>>}
    ELSE UNION {Required(v.o, k) : k \in {"version", "modelKey", "exportedAt", "settings"}}
         \cup (IF "version" \in DOMAIN v.o /\ ~(IsStr(v.o.version) /\ SemverMatch(v.o.version.s))
               THEN {<<"version">>} ELSE {})
         \cup (IF "modelKey" \in DOMAIN v.o /\ ~(IsStr(v.o.modelKey) /\ v.o.modelKey.s # "")
               THEN {<<"modelKey">>} ELSE {})
         \cup (IF "exportedAt" \in DOMAIN v.o /\ ~IsStr(v.o.exportedAt)
               THEN {<<"exportedAt">>} ELSE {})
         \cup (IF "settings" \in DOMAIN v.o
               THEN Prefixed(<<"settings">>, BIMSettingsIssues(v.o.settings))
               ELSE {})

FieldFromJSON(f, v) ==
    CASE f = "visible" -> v.b
      [] f = "properties" -> [k \in DOMAIN v.o |-> v.o[k].s]
      [] OTHER -> v.s

\* result.data of a successful safeParse: the named keys only
ParsedSettings(v) ==
    [modelKey      |-> v.o.modelKey.s,
     createdAt     |-> v.o.createdAt.s,
     updatedAt     |-> v.o.updatedAt.s,
     nodeOverrides |-> [p \in DOMAIN v.o.nodeOverrides.o |->
                          [f \in DOMAIN v.o.nodeOverrides.o[p].o |->
                              FieldFromJSON(f, v.o.nodeOverrides.o[p].o[f])]]]

ParsedExport(v) ==
    [version    |-> v.o.version.s,
     modelKey   |-> v.o.modelKey.s,
     exportedAt |-> v.o.exportedAt.s,
     settings   |-> ParsedSettings(v.o.settings)]

\* validateBIMSettingsImport(json)
ValidateBIMSettingsImport(v) ==
    LET issues == BIMSettingsExportIssues(v)
    IN  IF issues = {} THEN [success |-> TRUE, data |-> ParsedExport(v)]
        ELSE [success |-> FALSE, error |-> issues]

----------------------------------------------------------------------------
\* Store state left alone by the path-mapping specification

NoSettings == [none |-> TRUE]
NoRoot == [n |-> 0]
NoCall == [op |-> "none"]
HistoryOff == [op |-> "off"]

StoreIdle ==
    /\ settings = NoSettings
    /\ pathMapping = EmptyMap
    /\ enhancedTreeData = <<>>
    /\ sceneRoot = NoRoot
    /\ db = EmptyMap
    /\ clock = 0
    /\ last = NoCall
    /\ prev = HistoryOff
    /\ pending = EmptyMap

PathIdle ==
    /\ tree = NoRoot
    /\ stack = <<>>
    /\ pathMap = EmptyMap
    /\ nameCounters = EmptyMap
    /\ pc = "idle"
    /\ yields = 0
    /\ returned = <<>>

BrowseIdle ==
    /\ startingItems = <<>>
    /\ filteredTreeData = <<>>
    /\ browsePc = "idle"

----------------------------------------------------------------------------
\* Specification of one buildPathMapping run over any bounded tree

PathInit ==
    /\ tree \in Trees(MaxNodes)
    /\ stack = <<>>
    /\ pathMap = EmptyMap
    /\ nameCounters = EmptyMap
    /\ pc = "idle"
    /\ yields = 0
    /\ returned = <<>>
    /\ StoreIdle
    /\ BrowseIdle

\* buildPathMapping is called: fresh maps, traverse(object, '')
PathStart ==
    /\ pc = "idle"
    /\ pc' = "run"
    /\ stack' = <<[node |-> 1, parentPath |-> <<>>]>>
    /\ pathMap' = EmptyMap
    /\ nameCounters' = EmptyMap
    /\ yields' = 0
    /\ UNCHANGED <<tree, returned, storeVars, browseVars>>

\* one traverse call
PathVisit ==
    /\ pc = "run"
    /\ stack # <<>>
    /\ LET st == TraverseStep(tree, [stack |-> stack, pathMap |-> pathMap,
                                     nameCounters |-> nameCounters])
       IN  /\ stack' = st.stack
           /\ pathMap' = st.pathMap
           /\ nameCounters' = st.nameCounters
    /\ UNCHANGED <<tree, pc, yields, returned, storeVars, browseVars>>

\* traverse(object, '') has returned: return pathMap
PathReturn ==
    /\ pc = "run"
    /\ stack = <<>>
    /\ pc' = "done"
    /\ returned' = Append(returned, pathMap)
    /\ UNCHANGED <<tree, stack, pathMap, nameCounters, yields, storeVars, browseVars>>

PathNext == PathStart \/ PathVisit \/ PathReturn

SpecPath == PathInit /\ [][PathNext]_vars

----------------------------------------------------------------------------
\* BIMSettingsStore over the Dexie table

ModelKeys == {"m1", "m2"}

\* two scene roots the viewer can hand to initForModel; some nodes are
\* hidden in the scene itself (Object3D.visible = false)
SceneA ==
    [n |-> 4,
     parent |-> [i \in 2..4 |-> IF i = 3 THEN 2 ELSE 1],
     label |-> <<RootLabel,
                 [name |-> NameA, type |-> <<"M">>],
                 [name |-> NameB, type |-> <<"M">>],
                 [name |-> NameA, type |-> <<"M">>]>>,
     visible |-> <<TRUE, TRUE, FALSE, TRUE>>]

SceneB ==
    [n |-> 2,
     parent |-> [i \in 2..2 |-> 1],
     label |-> <<RootLabel, [name |-> NameB, type |-> <<"M">>]>>,
     visible |-> <<TRUE, FALSE>>]

\* the scene root the viewer holds for each model file
SceneOf(modelKey) == IF modelKey = "m1" THEN SceneA ELSE SceneB

PathA == <<"R", "/", "A">>
PathZ == <<"Z">>
PathY == <<"Y">>

\* paths the callers address: a node of SceneA and a path that names no node
PathInputs == {PathA, PathZ}

PropsP == [k \in {"floor"} |-> "2"]

\* the partial overrides the callers pass
Partials ==
    { EmptyObject,
      [f \in {"visible"} |-> FALSE],
      [f \in {"visible", "menu"} |-> IF f = "visible" THEN TRUE ELSE "root"],
      [f \in {"displayName", "properties"} |-> IF f = "displayName" THEN <<"Q">> ELSE PropsP] }

\* variant: { ...overrides, ...existing }, the stored value winning
MergeExistingWins(existing, overrides) ==
    [f \in DOMAIN existing \cup DOMAIN overrides |->
        IF f \in DOMAIN existing THEN existing[f] ELSE overrides[f]]

\* { ...existing, ...overrides }
Merge(existing, overrides) ==
    [f \in DOMAIN existing \cup DOMAIN overrides |->
        IF f \in DOMAIN overrides THEN overrides[f] ELSE existing[f]]

\* this._settings.nodeOverrides[path], undefined spreading as no fields
EntryOf(ov, path) == IF path \in DOMAIN ov THEN ov[path] ELSE EmptyObject

\* new Date().toISOString() during the call
Now == Iso(clock + 1)

\* saveBIMSettings: db.bimSettings.put(settings); the table's key path is modelKey
\* variant: every document lands in one slot, whatever its modelKey
SaveBIMSettingsOneSlot(table, modelKey, s) == Put(table, "m1", s)

SaveBIMSettings(table, modelKey, s) == Put(table, s.modelKey, s)

\* getBIMSettings: db.bimSettings.get(modelKey); a failed read is logged and
\* answered with null
GetBIMSettings(table, modelKey, readOk) ==
    IF readOk /\ modelKey \in DOMAIN table THEN table[modelKey] ELSE NoSettings

\* deleteBIMSettings: db.bimSettings.delete(modelKey)
DeleteBIMSettings(table, modelKey) == Drop(table, modelKey)

NewSettings(modelKey, now) ==
    [modelKey |-> modelKey, createdAt |-> now, updatedAt |-> now,
     nodeOverrides |-> EmptyMap]

\* _updateEnhancedTreeData(sceneRoot) for the document s
UpdateEnhancedTreeData(s, root, pm, old) ==
    IF s = NoSettings THEN old ELSE GenerateEnhancedTreeData(root, pm, s.nodeOverrides)

\* if (this._sceneRoot) this._updateEnhancedTreeData(this._sceneRoot)
Regenerate(s, root, pm, old) ==
    IF root # NoRoot THEN UpdateEnhancedTreeData(s, root, pm, old) ELSE old

\* time passes with every call; the history shifts; a call that is awaited
\* to its end leaves the suspended calls where they are
Tick ==
    /\ clock' = clock + 1
    /\ prev' = IF prev = HistoryOff THEN prev ELSE last
    /\ pending' = pending

\* variant: a failed write restores the document from before the call
RolledBackDocument(s, before, writeOk) == IF writeOk THEN s ELSE before

\* this._settings after `await saveBIMSettings(...)` settled either way: no
\* method catches the rejection to restore the document it had before
KeptDocument(s, before, writeOk) == s

Loaded == settings # NoSettings

InitForModel(modelKey, root, readOk) ==
    /\ clock < MaxClock
    /\ \E pm \in {BuildPathMapping(root)} :
       \E s \in {LET saved == GetBIMSettings(db, modelKey, readOk)
                 IN  IF saved # NoSettings THEN saved ELSE NewSettings(modelKey, Now)} :
           /\ sceneRoot' = root
           /\ pathMapping' = pm
           /\ settings' = s
           /\ enhancedTreeData' = UpdateEnhancedTreeData(s, root, pm, enhancedTreeData)
    /\ last' = [op |-> "initForModel", modelKey |-> modelKey, before |-> settings,
                outcome |-> "returned"]
    /\ Tick
    /\ UNCHANGED <<db, pathVars, browseVars>>

\* a call on a store with no document: early return
NotInitialized(op) ==
    /\ ~Loaded
    /\ last' = [op |-> op, before |-> settings, outcome |-> "returned"]
    /\ UNCHANGED <<settings, pathMapping, enhancedTreeData, sceneRoot, db>>

\* the tail shared by the mutators: await saveBIMSettings(...), which throws
\* when the write fails; regen says whether the method re-enriches afterwards
\* variant: the write carries the document from before the change
SaveAndRegenerateStale(s, writeOk, regen) ==
    IF writeOk
    THEN /\ db' = IF settings = NoSettings THEN db
                  ELSE SaveBIMSettings(db, settings.modelKey, settings)
         /\ enhancedTreeData' =
                IF regen THEN Regenerate(s, sceneRoot, pathMapping, enhancedTreeData)
                ELSE enhancedTreeData
    ELSE UNCHANGED <<db, enhancedTreeData>>

SaveAndRegenerate(s, writeOk, regen) ==
    IF writeOk
    THEN /\ db' = SaveBIMSettings(db, s.modelKey, s)
         /\ enhancedTreeData' =
                IF regen THEN Regenerate(s, sceneRoot, pathMapping, enhancedTreeData)
                ELSE enhancedTreeData
    ELSE UNCHANGED <<db, enhancedTreeData>>

Outcome(writeOk) == IF writeOk THEN "returned" ELSE "threw"

SetNodeOverride(path, overrides, writeOk) ==
    /\ clock < MaxClock
    /\ \/ NotInitialized("setNodeOverride")
       \/ /\ Loaded
          /\ LET merged == Merge(EntryOf(settings.nodeOverrides, path), overrides)
                 s == [settings EXCEPT !.nodeOverrides = Put(@, path, merged),
                                       !.updatedAt = Now]
             IN  /\ settings' = KeptDocument(s, settings, writeOk)
                 /\ SaveAndRegenerate(s, writeOk, TRUE)
          /\ last' = [op |-> "setNodeOverride", path |-> path, overrides |-> overrides,
                      before |-> settings, writeOk |-> writeOk,
                      outcome |-> Outcome(writeOk)]
          /\ UNCHANGED <<pathMapping, sceneRoot>>
    /\ Tick
    /\ UNCHANGED <<pathVars, browseVars>>

\* variant: a partial unset, only the visible field of the entry goes
DeleteVisibleOnly(ov, path) ==
    IF path \in DOMAIN ov THEN Put(ov, path, Drop(ov[path], "visible")) ELSE ov

\* delete this._settings.nodeOverrides[path]
DeleteEntry(ov, path) == Drop(ov, path)

RemoveNodeOverride(path, writeOk) ==
    /\ clock < MaxClock
    /\ \/ NotInitialized("removeNodeOverride")
       \/ /\ Loaded
          /\ LET s == [settings EXCEPT !.nodeOverrides = DeleteEntry(@, path),
                                       !.updatedAt = Now]
             IN  /\ settings' = KeptDocument(s, settings, writeOk)
                 /\ SaveAndRegenerate(s, writeOk, FALSE)
          /\ last' = [op |-> "removeNodeOverride", path |-> path,
                      before |-> settings, writeOk |-> writeOk,
                      outcome |-> Outcome(writeOk)]
          /\ UNCHANGED <<pathMapping, sceneRoot>>
    /\ Tick
    /\ UNCHANGED <<pathVars, browseVars>>

\* the loop body of resetAllVisibility for one entry: the entry afterwards,
\* EmptyObject meaning that a visible-only entry is to be deleted
ResetEntry(override) ==
    IF "visible" \in DOMAIN override THEN Drop(override, "visible") ELSE override

\* variant: every entry that had visible is deleted
ResetDeletesAny(override) == "visible" \in DOMAIN override

\* the entry is deleted when it had visible and nothing else is left
ResetDeletes(override) ==
    "visible" \in DOMAIN override /\ DOMAIN ResetEntry(override) = {}

ResetOverrides(ov) ==
    [p \in {q \in DOMAIN ov : ~ResetDeletes(ov[q])} |-> ResetEntry(ov[p])]

ResetAllVisibility(writeOk) ==
    /\ clock < MaxClock
    /\ \/ NotInitialized("resetAllVisibility")
       \/ /\ Loaded
          /\ LET s == [settings EXCEPT !.nodeOverrides = ResetOverrides(@),
                                       !.updatedAt = Now]
             IN  /\ settings' = KeptDocument(s, settings, writeOk)
                 /\ SaveAndRegenerate(s, writeOk, TRUE)
          /\ last' = [op |-> "resetAllVisibility", before |-> settings,
                      writeOk |-> writeOk, outcome |-> Outcome(writeOk)]
          /\ UNCHANGED <<pathMapping, sceneRoot>>
    /\ Tick
    /\ UNCHANGED <<pathVars, browseVars>>

\* variant: with no document loaded, an envelope of an empty document is
\* returned
ExportResultOfNothing(s, now) ==
    IF s # NoSettings
    THEN [op |-> "exportSettings", before |-> s, outcome |-> "returned",
          text |-> ExportText(s, now)]
    ELSE [op |-> "exportSettings", before |-> s, outcome |-> "returned",
          text |-> ExportText(NewSettings("none", now), now)]

\* what a call of exportSettings() comes to: the text it returns, or
\* throw new Error('No settings to export')
ExportResult(s, now) ==
    IF s # NoSettings
    THEN [op |-> "exportSettings", before |-> s, outcome |-> "returned",
          text |-> ExportText(s, now)]
    ELSE [op |-> "exportSettings", before |-> s, outcome |-> "threw"]

ExportSettings ==
    /\ clock < MaxClock
    /\ last' = ExportResult(settings, Now)
    /\ Tick
    /\ UNCHANGED <<settings, pathMapping, enhancedTreeData, sceneRoot, db, pathVars, browseVars>>

\* variant: the imported document keeps the model key it names
ImportedSettingsKeepKey(data, currentModelKey, now) ==
    [data.settings EXCEPT !.updatedAt = now]

\* variant: the import also restamps createdAt
ImportedSettingsRestamped(data, currentModelKey, now) ==
    [data.settings EXCEPT !.modelKey = currentModelKey, !.updatedAt = now,
                          !.createdAt = now]

\* variant: the entries whose path names no node of the loaded tree are
\* filtered out of the imported document
ImportedSettingsMappedOnly(data, currentModelKey, now) ==
    [data.settings EXCEPT !.modelKey = currentModelKey, !.updatedAt = now,
                          !.nodeOverrides =
                              [p \in {q \in DOMAIN @ :
                                         \E i \in DOMAIN pathMapping : pathMapping[i] = q} |->
                                  @[p]]]

\* the document importSettings installs for validated data
ImportedSettings(data, currentModelKey, now) ==
    [data.settings EXCEPT !.modelKey = currentModelKey, !.updatedAt = now]

ImportSettings(text, currentModelKey, writeOk) ==
    /\ clock < MaxClock
    /\ IF ~text.syntaxOk
       THEN \* JSON.parse throws; the catch returns the failure result
            /\ last' = [op |-> "importSettings", text |-> text, modelKey |-> currentModelKey,
                        before |-> settings, outcome |-> "returned",
                        success |-> FALSE, cause |-> "parse"]
            /\ UNCHANGED <<settings, db, enhancedTreeData>>
       ELSE \E validation \in {ValidateBIMSettingsImport(text.value)} :
                IF ~validation.success
                THEN /\ last' = [op |-> "importSettings", text |-> text,
                                 modelKey |-> currentModelKey,
                                 before |-> settings, outcome |-> "returned",
                                 success |-> FALSE, cause |-> "validation"]
                     /\ UNCHANGED <<settings, db, enhancedTreeData>>
                ELSE \E s \in {ImportedSettings(validation.data, currentModelKey, Now)} :
                         /\ settings' = KeptDocument(s, settings, writeOk)
                         /\ SaveAndRegenerate(s, writeOk, TRUE)
                         \* a throw of saveBIMSettings lands in the catch
                         /\ last' = [op |-> "importSettings", text |-> text,
                                     modelKey |-> currentModelKey,
                                     before |-> settings, outcome |-> "returned",
                                     writeOk |-> writeOk, success |-> writeOk,
                                     cause |-> IF writeOk THEN "none" ELSE "write",
                                     data |-> validation.data]
    /\ Tick
    /\ UNCHANGED <<pathMapping, sceneRoot, pathVars, browseVars>>

ClearedStore ==
    /\ settings' = NoSettings
    /\ pathMapping' = EmptyMap
    /\ enhancedTreeData' = <<>>
    /\ sceneRoot' = NoRoot

Clear ==
    /\ clock < MaxClock
    /\ ClearedStore
    /\ last' = [op |-> "clear", before |-> settings, outcome |-> "returned"]
    /\ Tick
    /\ UNCHANGED <<db, pathVars, browseVars>>

DeleteSettings(modelKey, deleteOk) ==
    /\ clock < MaxClock
    /\ IF deleteOk
       THEN /\ db' = DeleteBIMSettings(db, modelKey)
            /\ ClearedStore
       ELSE UNCHANGED <<db, settings, pathMapping, enhancedTreeData, sceneRoot>>
    /\ last' = [op |-> "deleteSettings", modelKey |-> modelKey, before |-> settings,
                outcome |-> Outcome(deleteOk)]
    /\ Tick
    /\ UNCHANGED <<pathVars, browseVars>>

----------------------------------------------------------------------------
\* Texts handed to importSettings

ImportedOverrides ==
    [p \in {PathA, PathY} |->
        IF p = PathA
        THEN OverrideToJSON([f \in {"displayName", "visible"} |->
                                IF f = "visible" THEN FALSE ELSE <<"I">>])
        ELSE OverrideToJSON([f \in {"menu"} |-> "hide"])]

ImportedDocument ==
    [k \in {"modelKey", "createdAt", "updatedAt", "nodeOverrides"} |->
        CASE k = "modelKey" -> JStr("other")
          [] k = "createdAt" -> JStr(Iso(7))
          [] k = "updatedAt" -> JStr(Iso(8))
          [] OTHER -> JObj(ImportedOverrides)]

ImportedEnvelope ==
    [k \in {"version", "modelKey", "exportedAt", "settings"} |->
        CASE k = "version" -> JStr(Version100)
          [] k = "modelKey" -> JStr("other")
          [] k = "exportedAt" -> JStr(Iso(9))
          [] OTHER -> JObj(ImportedDocument)]

\* the envelope with its document replaced / its override map replaced
EnvelopeWithDocument(doc) == Put(ImportedEnvelope, "settings", JObj(doc))

DocumentWithOverrides(ov) == Put(ImportedDocument, "nodeOverrides", JObj(ov))

ValidText == TextOf(JObj(ImportedEnvelope))

ExtraTopText == TextOf(JObj(Put(ImportedEnvelope, "extra", JStr(<<"x">>))))

ExtraDocText ==
    TextOf(JObj(EnvelopeWithDocument(Put(ImportedDocument, "extra", JStr(<<"x">>)))))

ExtraOverrideText ==
    TextOf(JObj(EnvelopeWithDocument(DocumentWithOverrides(
        Put(ImportedOverrides, PathA,
            JObj(Put(ImportedOverrides[PathA].o, "color", JStr(<<"x">>))))))))

BadVersionText == TextOf(JObj(Put(ImportedEnvelope, "version", JStr(<<"v", "1">>))))

WrongTypeText ==
    TextOf(JObj(EnvelopeWithDocument(DocumentWithOverrides(
        Put(ImportedOverrides, PathZ,
            JObj([f \in {"visible"} |-> JStr(<<"y">>)]))))))

ImportTexts ==
    {Garbage, ValidText, ExtraTopText, ExtraDocText, ExtraOverrideText,
     BadVersionText, WrongTypeText}

\* the texts a caller can hand over now: the fixed ones, and what
\* exportSettings() returns for the loaded document
TextsNow == ImportTexts \cup (IF Loaded THEN {ExportText(settings, Now)} ELSE {})

\* importSettings reaches its write only for a text that parses and validates
ReachesWrite(text) ==
    text.syntaxOk /\ ValidateBIMSettingsImport(text.value).success

\* the outcomes of the write that make a difference to the call
WriteOutcomes(text) == IF ReachesWrite(text) THEN BOOLEAN ELSE {TRUE}

----------------------------------------------------------------------------
\* Specification of the store: any sequence of calls, each awaited

\* a document an earlier session left in the table
StoredOverrides ==
    [p \in {PathA, PathZ} |->
        IF p = PathA
        THEN [f \in {"displayName", "visible", "properties"} |->
                CASE f = "visible" -> FALSE
                  [] f = "displayName" -> <<"N">>
                  [] OTHER -> PropsP]
        ELSE [f \in {"visible"} |-> TRUE]]

StoredDocument ==
    [modelKey |-> "m1", createdAt |-> Iso(0), updatedAt |-> Iso(0),
     nodeOverrides |-> StoredOverrides]

\* the store as constructed; the table holds the earlier document of m1 and
\* nothing for m2
StoreInit ==
    /\ PathIdle
    /\ BrowseIdle
    /\ settings = NoSettings
    /\ pathMapping = EmptyMap
    /\ enhancedTreeData = <<>>
    /\ sceneRoot = NoRoot
    /\ db = [k \in {"m1"} |-> StoredDocument]
    /\ clock = 0
    /\ last = NoCall
    /\ prev = HistoryOff
    /\ pending = EmptyMap

StoreNext ==
    \/ \E k \in ModelKeys, ok \in BOOLEAN : InitForModel(k, SceneOf(k), ok)
    \/ \E p \in PathInputs, o \in Partials, ok \in BOOLEAN : SetNodeOverride(p, o, ok)
    \/ \E p \in PathInputs, ok \in BOOLEAN : RemoveNodeOverride(p, ok)
    \/ \E ok \in BOOLEAN : ResetAllVisibility(ok)
    \/ ExportSettings
    \/ \E x \in TextsNow, k \in ModelKeys :
          \E ok \in WriteOutcomes(x) : ImportSettings(x, k, ok)
    \/ Clear
    \/ \E k \in ModelKeys, ok \in BOOLEAN : DeleteSettings(k, ok)

Spec == StoreInit /\ [][StoreNext]_vars

----------------------------------------------------------------------------
\* Specification of successive setNodeOverride calls, with the history of
\* the last two calls

MergeInit ==
    /\ PathIdle
    /\ BrowseIdle
    /\ settings = NoSettings
    /\ pathMapping = EmptyMap
    /\ enhancedTreeData = <<>>
    /\ sceneRoot = NoRoot
    /\ db = [k \in {"m1"} |-> StoredDocument]
    /\ clock = 0
    /\ last = NoCall
    /\ prev = NoCall
    /\ pending = EmptyMap

MergeNext ==
    \/ \E k \in ModelKeys, ok \in BOOLEAN : InitForModel(k, SceneOf(k), ok)
    \/ \E p \in PathInputs, o \in Partials, ok \in BOOLEAN : SetNodeOverride(p, o, ok)

SpecMerge == MergeInit /\ [][MergeNext]_vars

----------------------------------------------------------------------------
\* C1: buildPathMapping gives different paths to any two distinct children
\* of the same parent, whatever the names (names ending in "[k]" included).
SiblingPathsDistinct ==
    pc = "done" =>
        \A i \in 2..tree.n : \A j \in 2..tree.n :
            (i # j /\ tree.parent[i] = tree.parent[j]) => pathMap[i] # pathMap[j]

----------------------------------------------------------------------------
\* Vocabulary of the store properties

\* the field f of the entry of path p in the override map ov, if any
HasField(ov, p, f) == p \in DOMAIN ov /\ f \in DOMAIN ov[p]

\* the last call was op and ran on a loaded document
Did(call, op) == call.op = op /\ call.before # NoSettings

\* C2: two successive setOverride(p, a), setOverride(p, b) leave in the entry
\* of p, field by field, b's value if b defines the field, else a's, else the
\* value from before; no other field appears, and other paths are untouched.
MergeSemantics ==
    (Did(last, "setNodeOverride") /\ Did(prev, "setNodeOverride")
        /\ last.path = prev.path) =>
        LET p == last.path
            a == prev.overrides
            b == last.overrides
            before == prev.before.nodeOverrides
            now == settings.nodeOverrides
        IN  /\ p \in DOMAIN now
            /\ \A f \in Fields :
                  IF f \in DOMAIN b THEN HasField(now, p, f) /\ now[p][f] = b[f]
                  ELSE IF f \in DOMAIN a THEN HasField(now, p, f) /\ now[p][f] = a[f]
                  ELSE IF HasField(before, p, f)
                       THEN HasField(now, p, f) /\ now[p][f] = before[p][f]
                  ELSE ~HasField(now, p, f)
            /\ DOMAIN now[p] \subseteq Fields
            /\ DOMAIN now \ {p} = DOMAIN before \ {p}
            /\ \A q \in DOMAIN now \ {p} : now[q] = before[q]

\* two sets on a path whose entry had a field neither touches, the second
\* overwriting a field of the first with another value and adding one
MergeWitness ==
    /\ Did(last, "setNodeOverride") /\ Did(prev, "setNodeOverride")
    /\ last.path = prev.path
    /\ \E f \in DOMAIN prev.overrides \cap DOMAIN last.overrides :
          prev.overrides[f] # last.overrides[f]
    /\ DOMAIN last.overrides \ DOMAIN prev.overrides # {}
    /\ \E f \in Fields \ (DOMAIN prev.overrides \cup DOMAIN last.overrides) :
          HasField(prev.before.nodeOverrides, last.path, f)
    /\ DOMAIN prev.before.nodeOverrides \ {last.path} # {}

\* C3: after resetAllVisibility no entry has a visible field, the entries
\* that had only visible are gone, and the entries that had other fields
\* are present with exactly those fields and values.
ResetScoping ==
    Did(last, "resetAllVisibility") =>
        LET before == last.before.nodeOverrides
            now == settings.nodeOverrides
        IN  /\ \A p \in DOMAIN now : "visible" \notin DOMAIN now[p]
            /\ \A p \in DOMAIN before :
                  DOMAIN before[p] = {"visible"} => p \notin DOMAIN now
            /\ \A p \in DOMAIN before :
                  DOMAIN before[p] \ {"visible"} # {} =>
                      /\ p \in DOMAIN now
                      /\ DOMAIN now[p] = DOMAIN before[p] \ {"visible"}
                      /\ \A f \in DOMAIN now[p] : now[p][f] = before[p][f]
            /\ DOMAIN now \subseteq DOMAIN before

\* a reset of a document with a visible-only entry and an entry that has
\* visible next to another field
ResetWitness ==
    /\ Did(last, "resetAllVisibility")
    /\ \E p \in DOMAIN last.before.nodeOverrides :
          DOMAIN last.before.nodeOverrides[p] = {"visible"}
    /\ \E p \in DOMAIN last.before.nodeOverrides :
          /\ "visible" \in DOMAIN last.before.nodeOverrides[p]
          /\ DOMAIN last.before.nodeOverrides[p] # {"visible"}

\* the last call imported, for the document's own model key, the text that
\* exportSettings() returned for the document loaded at that moment
RoundTripCall ==
    /\ Did(last, "importSettings")
    /\ last.text = ExportText(last.before, Iso(clock))
    /\ last.modelKey = last.before.modelKey

SameButUpdatedAt(s, d) ==
    /\ s # NoSettings
    /\ s.modelKey = d.modelKey
    /\ s.createdAt = d.createdAt
    /\ s.nodeOverrides = d.nodeOverrides

FailedImportKeepsDocument ==
    (last.op = "importSettings" /\ ~last.success) => settings = last.before

ImportedOverridesExpected ==
    [p \in {PathA, PathY} |->
        IF p = PathA
        THEN [f \in {"displayName", "visible"} |-> IF f = "visible" THEN FALSE ELSE <<"I">>]
        ELSE [f \in {"menu"} |-> "hide"]]

\* C6: a successful importSettings(text, currentModelKey) replaces the
\* document wholesale: the override map and createdAt are the imported ones
\* and modelKey is currentModelKey, whatever key the text names; a text that
\* names another model is not rejected for it.
ImportReplacesWholesale ==
    /\ (last.op = "importSettings" /\ last.success) =>
          /\ settings.nodeOverrides = last.data.settings.nodeOverrides
          /\ settings.createdAt = last.data.settings.createdAt
          /\ settings.modelKey = last.modelKey
          /\ DOMAIN settings = {"modelKey", "createdAt", "updatedAt", "nodeOverrides"}
    /\ (last.op = "importSettings" /\ last.text = ValidText) =>
          /\ last.success = last.writeOk
          /\ settings.nodeOverrides = ImportedOverridesExpected
          /\ settings.createdAt = Iso(7)
          /\ settings.modelKey = last.modelKey

\* a successful import of the text of model "other" over a loaded document
\* with an entry the text does not have
ImportWitness ==
    /\ Did(last, "importSettings")
    /\ last.success
    /\ last.text = ValidText
    /\ last.modelKey # last.data.modelKey
    /\ \E p \in DOMAIN last.before.nodeOverrides : p \notin DOMAIN settings.nodeOverrides

\* the enriched tree was rebuilt from the current document by the last call
JustEnriched ==
    \/ last.op = "initForModel"
    \/ /\ last.op \in {"setNodeOverride", "resetAllVisibility"}
       /\ last.before # NoSettings /\ last.writeOk /\ sceneRoot # NoRoot
    \/ last.op = "importSettings" /\ last.success /\ sceneRoot # NoRoot

EnrichedItems == FlattenItems(enhancedTreeData)

\* C7: every enriched node's visible is the override's visible when the
\* override of its path defines one, and true otherwise, whatever the scene
\* node's own visible flag.
VisibleDefaultsToTrue ==
    JustEnriched =>
        \A i \in 1..Len(EnrichedItems) :
            EnrichedItems[i].visible =
                IF HasField(settings.nodeOverrides, EnrichedItems[i].path, "visible")
                THEN settings.nodeOverrides[EnrichedItems[i].path].visible
                ELSE TRUE

\* C8: hasOverrides of an enriched node is true iff the document has an
\* entry for its path with at least one field; an entry with no field
\* gives false.
HasOverridesIffFields ==
    JustEnriched =>
        \A i \in 1..Len(EnrichedItems) :
            EnrichedItems[i].hasOverrides <=>
                \E f \in Fields :
                    HasField(settings.nodeOverrides, EnrichedItems[i].path, f)

\* an enriched tree with a node whose entry has no field and a node with
\* no entry
HasOverridesWitness ==
    /\ JustEnriched
    /\ \E i \in 1..Len(EnrichedItems) :
          /\ EnrichedItems[i].path \in DOMAIN settings.nodeOverrides
          /\ ~EnrichedItems[i].hasOverrides
    /\ \E i \in 1..Len(EnrichedItems) :
          EnrichedItems[i].path \notin DOMAIN settings.nodeOverrides

\* the write of the mutating call failed
WriteFailed(call) ==
    /\ call.op \in {"setNodeOverride", "removeNodeOverride", "resetAllVisibility"}
    /\ call.before # NoSettings
    /\ ~call.writeOk

\* the document d shows the mutation the call made to the document it found
MutationIn(call, d) ==
    /\ d # NoSettings
    /\ d.modelKey = call.before.modelKey
    /\ d # call.before
    /\ call.op = "setNodeOverride" =>
          /\ call.path \in DOMAIN d.nodeOverrides
          /\ \A f \in DOMAIN call.overrides :
                HasField(d.nodeOverrides, call.path, f)
                /\ d.nodeOverrides[call.path][f] = call.overrides[f]
    /\ call.op = "removeNodeOverride" => call.path \notin DOMAIN d.nodeOverrides
    /\ call.op = "resetAllVisibility" =>
          \A p \in DOMAIN d.nodeOverrides : "visible" \notin DOMAIN d.nodeOverrides[p]

\* C9: when the store write of setOverride, removeOverride or
\* resetAllVisibility fails, the in-memory document still holds the mutation.
FailedWriteKeepsMutation ==
    WriteFailed(last) => MutationIn(last, settings) /\ last.outcome = "threw"

\* a failed write of a call that changed an entry, the table still holding
\* the document from before
FailedWriteWitness ==
    /\ WriteFailed(last)
    /\ settings.nodeOverrides # last.before.nodeOverrides
    /\ settings.modelKey \in DOMAIN db
    /\ db[settings.modelKey].nodeOverrides = last.before.nodeOverrides

UnknownFieldTexts == {ExtraTopText, ExtraDocText, ExtraOverrideText}

Rejected == ~last.success /\ last.cause = "validation" /\ settings = last.before

\* C10 as stated: a text with an unknown field at the envelope level, at the
\* document level or inside an override object is rejected and the document
\* is unchanged.
UnknownFieldsRejected ==
    (last.op = "importSettings" /\ last.text \in UnknownFieldTexts) => Rejected

\* C10 amended: a text with an unknown field inside an override object is
\* rejected and the document is unchanged; an unknown field at the envelope
\* or document level is dropped and does not stop the import.
UnknownOverrideFieldsRejected ==
    /\ (last.op = "importSettings" /\ last.text = ExtraOverrideText) => Rejected
    /\ (last.op = "importSettings" /\ last.text \in {ExtraTopText, ExtraDocText}) =>
          /\ last.cause \in {"none", "write"}
          /\ DOMAIN settings = {"modelKey", "createdAt", "updatedAt", "nodeOverrides"}
          /\ settings.nodeOverrides = ImportedOverridesExpected

\* an import of the text with the unknown override field over a loaded
\* document
UnknownFieldWitness ==
    /\ Did(last, "importSettings")
    /\ last.text = ExtraOverrideText
    /\ DOMAIN last.before.nodeOverrides # {}

----------------------------------------------------------------------------
\* filterTreeForBrowseMode (browseTreeFilter.ts), which BrowseSidebar
\* applies to the store's enhancedTreeData

RECURSIVE FindRootNodes(_)
\* findRootNodes: the items with menu === 'root', in the order traverse
\* meets them (an item before its children, children before later siblings)
FindRootNodes(items) ==
    IF items = <<>> THEN <<>>
    ELSE (IF Head(items).menu = "root" THEN <<Head(items)>> ELSE <<>>)
         \o FindRootNodes(Head(items).children)
         \o FindRootNodes(Tail(items))

\* variant: the filter always starts from the items it was given
StartingItemsAlwaysInput(items) == items

\* rootNodes.length > 0 ? rootNodes : items
StartingItems(items) ==
    LET rootNodes == FindRootNodes(items)
    IN  IF Len(rootNodes) > 0 THEN rootNodes ELSE items

\* variant: nothing is skipped as disabled
IsDisabledNever(item) == FALSE

\* item.menu === 'disabled'
IsDisabled(item) == item.menu = "disabled"

\* variant: a hidden node's children are dropped with it
PromotedNone(processedChildren) == <<>>

\* result.push(...processedChildren) for an item with menu === 'hide'
Promoted(processedChildren) == processedChildren

\* variant: a kept node loses its children
KeptItemAsLeaf(item, processedChildren) == <<[item EXCEPT !.children = <<>>]>>

\* result.push({ ...item, children: processedChildren })
KeptItem(item, processedChildren) == <<[item EXCEPT !.children = processedChildren]>>

RECURSIVE ProcessHiddenNodes(_)
ProcessHiddenNodes(items) ==
    IF items = <<>> THEN <<>>
    ELSE LET item == Head(items)
         IN  (IF IsDisabled(item) THEN <<>>
              ELSE IF item.menu = "hide"
                   THEN Promoted(ProcessHiddenNodes(item.children))
                   ELSE KeptItem(item, ProcessHiddenNodes(item.children)))
             \o ProcessHiddenNodes(Tail(items))

FilterTreeForBrowseMode(items) == ProcessHiddenNodes(StartingItems(items))

----------------------------------------------------------------------------
\* Specification of one run of the browse filter over the enriched tree of
\* any bounded scene whose stored overrides carry any menu markers

MaxItems == 4

\* node i of a browse scene is named "n<i>": all paths differ
BrowseLabel(i) == [name |-> <<"n">> \o NumToStr(i), type |-> <<"M">>]

BrowseScenes ==
    UNION { { [n |-> n, parent |-> p,
               label |-> [i \in 1..n |-> IF i = 1 THEN RootLabel ELSE BrowseLabel(i)],
               visible |-> [i \in 1..n |-> TRUE]] :
                p \in { q \in [2..n -> 1..n] : \A i \in 2..n : q[i] < i } } :
            n \in 2..(MaxItems + 1) }

MenuValues == MenuModes \cup {Undefined}

\* the override map that gives node i of the scene the marker menus[i]
MenuOverrides(t, pm, menus) ==
    LET marked == {i \in 2..t.n : menus[i] # Undefined}
    IN  [p \in {pm[i] : i \in marked} |->
            [f \in {"menu"} |-> menus[CHOOSE i \in marked : pm[i] = p]]]

\* the store after initForModel("m1", t) found the document with these markers
BrowseInit ==
    /\ PathIdle
    /\ BrowseIdle
    /\ \E t \in BrowseScenes : \E pm \in {BuildPathMapping(t)} :
          \E menus \in [2..t.n -> MenuValues] :
             \E ov \in {MenuOverrides(t, pm, menus)} :
                /\ sceneRoot = t
                /\ pathMapping = pm
                /\ settings = [modelKey |-> "m1", createdAt |-> Iso(0),
                               updatedAt |-> Iso(0), nodeOverrides |-> ov]
                /\ enhancedTreeData = GenerateEnhancedTreeData(t, pm, ov)
                /\ db = [k \in {"m1"} |-> settings]
    /\ clock = 0
    /\ last = NoCall
    /\ prev = HistoryOff
    /\ pending = EmptyMap

\* Step 1 of filterTreeForBrowseMode(bimSettingsStore.enhancedTreeData)
BrowseFindRoots ==
    /\ browsePc = "idle"
    /\ startingItems' = StartingItems(enhancedTreeData)
    /\ browsePc' = "roots"
    /\ UNCHANGED <<filteredTreeData, pathVars, storeVars>>

\* Step 2, and the return
BrowseProcessHidden ==
    /\ browsePc = "roots"
    /\ filteredTreeData' = ProcessHiddenNodes(startingItems)
    /\ browsePc' = "done"
    /\ UNCHANGED <<startingItems, pathVars, storeVars>>

BrowseNext == BrowseFindRoots \/ BrowseProcessHidden

SpecBrowse == BrowseInit /\ [][BrowseNext]_vars

----------------------------------------------------------------------------
\* Vocabulary of the browse-filter properties, over the scene the input
\* forest was enriched from (sceneRoot) and the markers of its nodes

RECURSIVE AncestorsOf(_, _)
\* the proper ancestors of node i in the scene t, the scene root excluded
AncestorsOf(t, i) ==
    IF i = 1 \/ t.parent[i] = 1 THEN {}
    ELSE {t.parent[i]} \cup AncestorsOf(t, t.parent[i])

\* the forest nodes of the scene (all but the scene root)
ForestNodes(t) == 2..t.n

\* i comes before j in document order: i is an ancestor of j, or where their
\* branches part, i's branch is the earlier sibling
DocBefore(t, i, j) ==
    /\ i # j
    /\ j \notin AncestorsOf(t, i)
    /\ \/ i \in AncestorsOf(t, j)
       \/ LET bi == CHOOSE a \in AncestorsOf(t, i) \cup {i} :
                       /\ a \notin AncestorsOf(t, j) \cup {j}
                       /\ t.parent[a] \in AncestorsOf(t, j) \cup {1}
              bj == CHOOSE a \in AncestorsOf(t, j) \cup {j} :
                       /\ a \notin AncestorsOf(t, i) \cup {i}
                       /\ t.parent[a] \in AncestorsOf(t, i) \cup {1}
          IN  bi < bj

\* the marker the input forest carries for node i: override?.menu of the
\* entry the document has for the node's path
MarkerOf(i) == FieldOr(settings.nodeOverrides, pathMapping[i], "menu", Undefined)

Marked(t, m) == {i \in ForestNodes(t) : MarkerOf(i) = m}

IdsOf(items) == [k \in 1..Len(items) |-> items[k].id]

Filtered == browsePc = "done"

\* C11: when some node of the input forest is marked root, the top level of
\* the result is exactly the root-marked nodes, each once, in document order,
\* wherever they were in the forest, so no unmarked ancestor is on top; when
\* none is, the filter starts from the input's own top level.
RootPromotion ==
    Filtered =>
        LET t == sceneRoot
            top == IdsOf(filteredTreeData)
        IN  IF Marked(t, "root") # {}
            THEN /\ {top[k] : k \in 1..Len(top)} = Marked(t, "root")
                 /\ Len(top) = Cardinality(Marked(t, "root"))
                 /\ \A k \in 1..Len(top) : \A l \in 1..Len(top) :
                       k < l => DocBefore(t, top[k], top[l])
                 /\ \A k \in 1..Len(top) :
                       \A a \in AncestorsOf(t, top[k]) :
                          MarkerOf(a) # "root" =>
                             \A l \in 1..Len(top) : top[l] # a
            ELSE startingItems = enhancedTreeData

\* a filtered forest with two promoted nodes, one of them found below an
\* unmarked top-level node and after a root-marked sibling's subtree
RootPromotionWitness ==
    /\ Filtered
    /\ Cardinality(Marked(sceneRoot, "root")) >= 2
    /\ \E i \in Marked(sceneRoot, "root") :
          /\ AncestorsOf(sceneRoot, i) # {}
          /\ \A a \in AncestorsOf(sceneRoot, i) : MarkerOf(a) # "root"
    /\ \E i \in Marked(sceneRoot, "root") : \E j \in Marked(sceneRoot, "root") :
          i > j /\ DocBefore(sceneRoot, i, j)

\* the nodes strictly between node a and its descendant i (a = 1 standing for
\* the top of the forest)
Between(t, a, i) ==
    IF a = 1 THEN AncestorsOf(t, i) ELSE AncestorsOf(t, i) \ (AncestorsOf(t, a) \cup {a})

Below(t, a) == {i \in ForestNodes(t) : a = 1 \/ a \in AncestorsOf(t, i)}

Plain(i) == MarkerOf(i) \notin {"hide", "disabled"}

\* the nodes that take a place in the child list of a: the unhidden
\* descendants that only hide nodes separate from a
PlacedUnder(t, a) ==
    {i \in Below(t, a) : Plain(i) /\ \A b \in Between(t, a, i) : MarkerOf(b) = "hide"}

\* the list holds exactly the nodes of the set, each once, in document order
InDocOrder(t, ids, set) ==
    /\ {ids[k] : k \in 1..Len(ids)} = set
    /\ Len(ids) = Cardinality(set)
    /\ \A k \in 1..Len(ids) : \A l \in 1..Len(ids) :
          k < l => DocBefore(t, ids[k], ids[l])

ResultItems == FlattenItems(filteredTreeData)

\* C12: no hide node is in the result, and in every child list of the result
\* (and at its top level when nothing is promoted) the children of a hide
\* node, filtered the same way, stand where the hide node stood: the list is,
\* in document order, the unhidden nodes that only hide nodes separate from
\* the list's owner, hide nodes inside hide nodes included.
HideSplicesChildren ==
    Filtered =>
        LET t == sceneRoot
        IN  /\ \A k \in 1..Len(ResultItems) : ResultItems[k].menu # "hide"
            /\ \A k \in 1..Len(ResultItems) :
                  InDocOrder(t, IdsOf(ResultItems[k].children),
                             PlacedUnder(t, ResultItems[k].id))
            /\ Marked(t, "root") = {} =>
                  InDocOrder(t, IdsOf(filteredTreeData), PlacedUnder(t, 1))

\* a hide node inside a hide node, with a child that ends up in the list
\* two levels up, ahead of a later sibling of the outer hide node
HideWitness ==
    /\ Filtered
    /\ Marked(sceneRoot, "root") = {}
    /\ \E h \in Marked(sceneRoot, "hide") : \E g \in Marked(sceneRoot, "hide") :
       \E c \in ForestNodes(sceneRoot) : \E q \in ForestNodes(sceneRoot) :
          /\ sceneRoot.parent[g] = h
          /\ sceneRoot.parent[c] = g
          /\ sceneRoot.parent[q] = sceneRoot.parent[h]
          /\ Plain(c) /\ Plain(q)
          /\ h < q /\ c > q
          /\ \E k \in 1..Len(filteredTreeData) :
                /\ k < Len(filteredTreeData)
                /\ filteredTreeData[k].id = c
                /\ filteredTreeData[k + 1].id = q

\* C13: no disabled node is anywhere in the result, no node is in a child
\* list of the result (or at its top level when nothing is promoted) with a
\* disabled node between it and the list's owner, and the unmarked siblings
\* of a disabled node stay in their list in their order.
DisabledDropsSubtree ==
    Filtered =>
        LET t == sceneRoot
            ListOf(a) == IF a = 1 THEN IdsOf(filteredTreeData)
                         ELSE IdsOf((CHOOSE x \in {ResultItems[k] : k \in 1..Len(ResultItems)} :
                                        x.id = a).children)
            Owners == {ResultItems[k].id : k \in 1..Len(ResultItems)}
                      \cup (IF Marked(t, "root") = {} THEN {1} ELSE {})
        IN  /\ \A k \in 1..Len(ResultItems) : ResultItems[k].menu # "disabled"
            /\ \A a \in Owners :
                  \A k \in 1..Len(ListOf(a)) :
                     /\ ListOf(a)[k] \in Below(t, a)
                     /\ \A b \in Between(t, a, ListOf(a)[k]) : MarkerOf(b) # "disabled"
            /\ \A d \in Marked(t, "disabled") :
                  (t.parent[d] \in Owners) =>
                      LET sibs == {i \in ForestNodes(t) :
                                      t.parent[i] = t.parent[d] /\ Plain(i)}
                          list == ListOf(t.parent[d])
                      IN  /\ \A i \in sibs : \E k \in 1..Len(list) : list[k] = i
                          /\ \A k \in 1..Len(list) : \A l \in 1..Len(list) :
                                (k < l /\ list[k] \in sibs /\ list[l] \in sibs)
                                    => list[k] < list[l]

\* a disabled node with a child, between two unmarked siblings, inside a
\* node that is kept
DisabledWitness ==
    /\ Filtered
    /\ \E d \in Marked(sceneRoot, "disabled") :
          /\ \E c \in ForestNodes(sceneRoot) : sceneRoot.parent[c] = d
          /\ \E i \in ForestNodes(sceneRoot) : \E j \in ForestNodes(sceneRoot) :
                /\ sceneRoot.parent[i] = sceneRoot.parent[d]
                /\ sceneRoot.parent[j] = sceneRoot.parent[d]
                /\ i < d /\ d < j
                /\ Plain(i) /\ Plain(j)
                /\ \E k \in 1..Len(filteredTreeData) :
                      /\ k < Len(filteredTreeData)
                      /\ filteredTreeData[k].id = i
                      /\ filteredTreeData[k + 1].id = j

\* C14: when no node of the input forest carries a marker, the result equals
\* the input: same nodes, nesting, order and field values.
UnmarkedForestUnchanged ==
    (Filtered /\ \A i \in ForestNodes(sceneRoot) : MarkerOf(i) = Undefined) =>
        filteredTreeData = enhancedTreeData

\* an unmarked forest of three levels with two nodes side by side
UnmarkedWitness ==
    /\ Filtered
    /\ \A i \in ForestNodes(sceneRoot) : MarkerOf(i) = Undefined
    /\ \E i \in ForestNodes(sceneRoot) : AncestorsOf(sceneRoot, i) # {}
    /\ \E i \in ForestNodes(sceneRoot) : \E j \in ForestNodes(sceneRoot) :
          i # j /\ sceneRoot.parent[i] = sceneRoot.parent[j]
    /\ filteredTreeData = enhancedTreeData
    /\ Len(ResultItems) = sceneRoot.n - 1

----------------------------------------------------------------------------
\* Specification of repeated buildPathMapping runs over one tree, the
\* traversal giving the main thread back wherever the time budget runs out

MaxRuns == 2

MaxYields == 1
MaxKeyNodes == 5
MaxDepth == 102
MaxGraphNodes == 3
MaxGraphItems == 2

\* the trees whose names make the duplicate counters count
RunTrees(maxNodes) ==
    {t \in Trees(maxNodes) : \A i \in 2..t.n : t.label[i].name \in {NameA, NameA1, NoName}}

RunsInit ==
    /\ tree \in RunTrees(MaxNodes)
    /\ stack = <<>>
    /\ pathMap = EmptyMap
    /\ nameCounters = EmptyMap
    /\ pc = "idle"
    /\ yields = 0
    /\ returned = <<>>
    /\ StoreIdle
    /\ BrowseIdle

\* variant: the counters of the run before are counted on
LeftoverCounters(old) == old

\* const nameCounters = new Map<string, number>()
NewCounters(old) == EmptyMap

\* buildPathMapping is called again on the same object
PathRestart ==
    /\ pc = "done"
    /\ Len(returned) < MaxRuns
    /\ pc' = "run"
    /\ stack' = <<[node |-> 1, parentPath |-> <<>>]>>
    /\ pathMap' = EmptyMap
    /\ nameCounters' = NewCounters(nameCounters)
    /\ yields' = 0
    /\ UNCHANGED <<tree, returned, storeVars, browseVars>>

\* slicer.check() finds the budget used up (performance.now() decides) and
\* awaits yieldToMain(); the run resumes where it was
PathYield ==
    /\ pc = "run"
    /\ stack # <<>>
    /\ yields < MaxYields
    /\ yields' = yields + 1
    /\ UNCHANGED <<tree, stack, pathMap, nameCounters, pc, returned, storeVars, browseVars>>

RunsNext == PathStart \/ PathVisit \/ PathYield \/ PathReturn \/ PathRestart

SpecRuns == RunsInit /\ [][RunsNext]_vars

\* C15: every run of buildPathMapping over the same tree returns the same
\* map: the one a run from scratch that never yields computes, which reads
\* only ids, names, kinds and the order of children (not, for one, the
\* nodes' visible flag), whatever an earlier run left and wherever the
\* traversal yielded.
PathsDeterministic ==
    \A k \in 1..Len(returned) :
        /\ returned[k] = BuildPathMapping(tree)
        /\ returned[k] = BuildPathMapping([tree EXCEPT !.visible = [i \in 1..tree.n |-> FALSE]])
        /\ \A l \in 1..Len(returned) : returned[k] = returned[l]

\* a second run that yielded has returned, over a tree in which a duplicate
\* name had to be numbered
PathsDeterministicWitness ==
    /\ pc = "done"
    /\ Len(returned) >= 2
    /\ yields >= 1
    /\ \E key \in DOMAIN nameCounters : nameCounters[key] >= 2

----------------------------------------------------------------------------
\* a step that is a call of the store method op
Calls(op) == clock' = clock + 1 /\ last'.op = op

StoreUntouched == UNCHANGED <<settings, pathMapping, enhancedTreeData, sceneRoot, db>>

\* the text is an envelope of version 1.0.0 that names the document's
\* model key and reads back as the document d
EnvelopeOf(text, d) ==
    /\ text.syntaxOk
    /\ DOMAIN text.value.o = {"version", "modelKey", "exportedAt", "settings"}
    /\ text.value.o.version = JStr(<<"1", ".", "0", ".", "0">>)
    /\ text.value.o.modelKey = JStr(d.modelKey)
    /\ ValidateBIMSettingsImport(text.value).success
    /\ ValidateBIMSettingsImport(text.value).data.settings = d

\* C16 as stated: exportSettings with no document loaded returns a failure
\* result instead of raising and leaves the store as it was; with a document
\* loaded it returns the envelope of that document.
ExportFailureIsResult ==
    [][Calls("exportSettings") =>
          /\ StoreUntouched
          /\ last'.outcome = "returned"
          /\ settings # NoSettings => EnvelopeOf(last'.text, settings)]_vars

\* C16 amended: exportSettings with no document loaded raises an error and
\* leaves the store as it was; with a document loaded it returns the
\* envelope of that document.
ExportRaisesWhenEmpty ==
    [][Calls("exportSettings") =>
          /\ StoreUntouched
          /\ IF settings = NoSettings
             THEN last'.outcome = "threw"
             ELSE last'.outcome = "returned" /\ EnvelopeOf(last'.text, settings)]_vars

\* exportSettings was called after deleteSettings had removed the document
\* of m1 and emptied the store
ExportWitness ==
    /\ last.op = "exportSettings"
    /\ last.outcome = "threw"
    /\ settings = NoSettings
    /\ "m1" \notin DOMAIN db

----------------------------------------------------------------------------
\* the paths of the nodes of the tree the store holds (none without a tree)
NodePaths == {pathMapping[i] : i \in DOMAIN pathMapping}

\* the entries of the override map ov whose path names no node
Unmapped(ov) == {p \in DOMAIN ov : p \notin NodePaths}

\* the enriched tree the store would show for the override map ov
EnrichedFor(ov) ==
    IF sceneRoot = NoRoot THEN <<>>
    ELSE GenerateEnhancedTreeData(sceneRoot, pathMapping, ov)

\* C17: after a successful import every imported entry whose path names no
\* node of the loaded tree is, unchanged, in the in-memory document and in
\* the persisted one, and the enriched tree is the one the document would
\* give without those entries.
UnmappedPathsInert ==
    (last.op = "importSettings" /\ last.success) =>
        LET imported == last.data.settings.nodeOverrides
            mapped == [p \in DOMAIN imported \ Unmapped(imported) |-> imported[p]]
        IN  /\ \A p \in Unmapped(imported) :
                  /\ p \in DOMAIN settings.nodeOverrides
                  /\ settings.nodeOverrides[p] = imported[p]
                  /\ last.modelKey \in DOMAIN db
                  /\ p \in DOMAIN db[last.modelKey].nodeOverrides
                  /\ db[last.modelKey].nodeOverrides[p] = imported[p]
            /\ enhancedTreeData = EnrichedFor(mapped)

\* a successful import, into a store that holds a tree, of a document with
\* an entry for a node of the tree and an entry for a path the tree lacks
UnmappedWitness ==
    /\ last.op = "importSettings" /\ last.success
    /\ sceneRoot # NoRoot
    /\ Unmapped(last.data.settings.nodeOverrides) # {}
    /\ DOMAIN last.data.settings.nodeOverrides \ Unmapped(last.data.settings.nodeOverrides) # {}
    /\ \E i \in 1..Len(EnrichedItems) : EnrichedItems[i].hasOverrides

----------------------------------------------------------------------------
\* the store holds nothing in memory
MemoryDiscarded(s, pm, etd, root) ==
    s = NoSettings /\ pm = EmptyMap /\ etd = <<>> /\ root = NoRoot

\* d is a document of the model key with no override and fresh timestamps
EmptyDocument(d, modelKey, now) ==
    /\ d # NoSettings
    /\ d.modelKey = modelKey
    /\ d.nodeOverrides = EmptyMap
    /\ d.createdAt = now /\ d.updatedAt = now

\* C18: clear() empties the memory of the store and leaves the table alone;
\* initForModel(k) loads the document the table holds for k, as persisted,
\* and makes an empty document only when the table holds none; a document
\* leaves the table only in a deleteSettings call for its key.
PersistedCopyLifecycle ==
    [][/\ Calls("clear") =>
             /\ MemoryDiscarded(settings', pathMapping', enhancedTreeData', sceneRoot')
             /\ db' = db
       /\ Calls("initForModel") =>
             /\ db' = db
             /\ IF last'.modelKey \in DOMAIN db
                THEN settings' = db[last'.modelKey]
                ELSE EmptyDocument(settings', last'.modelKey, Iso(clock'))
       /\ \A k \in DOMAIN db :
             k \notin DOMAIN db' => Calls("deleteSettings") /\ last'.modelKey = k]_vars

----------------------------------------------------------------------------
\* the last call changed the override document of a loaded store
Mutated ==
    \/ /\ last.op \in {"setNodeOverride", "removeNodeOverride", "resetAllVisibility"}
       /\ last.before # NoSettings
    \/ last.op = "importSettings" /\ last.success

\* C19: after setOverride, removeOverride, resetAllVisibility or a
\* successful importSettings has completed, its store write having succeeded
\* or not, the enriched tree is the enrichment of the retained root with the
\* path map and the overrides now in memory.
EnrichedTreeFresh ==
    Mutated => enhancedTreeData = EnrichedFor(settings.nodeOverrides)

----------------------------------------------------------------------------
\* Specification of the editing calls alone: initForModel, then any
\* sequence of setNodeOverride, removeNodeOverride and resetAllVisibility

EditNext ==
    \/ \E k \in ModelKeys, ok \in BOOLEAN : InitForModel(k, SceneOf(k), ok)
    \/ \E p \in PathInputs, o \in Partials, ok \in BOOLEAN : SetNodeOverride(p, o, ok)
    \/ \E p \in PathInputs, ok \in BOOLEAN : RemoveNodeOverride(p, ok)
    \/ \E ok \in BOOLEAN : ResetAllVisibility(ok)

SpecEdit == StoreInit /\ [][EditNext]_vars

\* C20: after initForModel and any sequence of setOverride (with any
\* partial, the one with no fields included), removeOverride and
\* resetAllVisibility, no entry of the in-memory document has zero fields.
NoFieldlessEntries ==
    Loaded => \A p \in DOMAIN settings.nodeOverrides : DOMAIN settings.nodeOverrides[p] # {}

----------------------------------------------------------------------------
\* the store write of the last call failed (importSettings included)
AnyWriteFailed ==
    \/ WriteFailed(last)
    \/ last.op = "importSettings" /\ last.cause = "write"

\* C21: when the store write fails during setOverride, removeOverride,
\* resetAllVisibility or importSettings, the call rejects to its caller; it
\* does not return normally, with or without a failure result.
WriteFailureRejects ==
    AnyWriteFailed => last.outcome = "threw"

\* a step in which a mutation of the document got its write through
WroteThrough ==
    /\ clock' = clock + 1
    /\ \/ /\ last'.op \in {"setNodeOverride", "removeNodeOverride", "resetAllVisibility"}
          /\ last'.before # NoSettings
          /\ last'.writeOk
       \/ last'.op = "importSettings" /\ last'.success

\* C22: each setOverride, removeOverride, resetAllVisibility and successful
\* importSettings whose write succeeds leaves, under the model's key, the
\* document that is in memory after the change, and writes nothing else; so
\* after awaited mutations whose writes all succeed the persisted document
\* equals the in-memory one.
PersistenceFollowsMutation ==
    [][WroteThrough =>
          /\ settings' # NoSettings
          /\ settings'.modelKey \in DOMAIN db'
          /\ db'[settings'.modelKey] = settings'
          /\ settings' # settings
          /\ \A k \in DOMAIN db' \ {settings'.modelKey} : k \in DOMAIN db /\ db'[k] = db[k]
          /\ DOMAIN db \subseteq DOMAIN db']_vars

\* a removeOverride got its write through: the table holds the document
\* without the entry, no longer the one an earlier session left
PersistenceWitness ==
    /\ Did(last, "removeNodeOverride")
    /\ last.writeOk
    /\ last.path \in DOMAIN last.before.nodeOverrides
    /\ db[settings.modelKey] = settings
    /\ db[settings.modelKey] # last.before

----------------------------------------------------------------------------
\* C27: removeOverride(p) takes the whole entry of p out of the document and
\* leaves every other entry, modelKey and createdAt as they were; when p has
\* no entry, no entry changes.
RemoveFrame ==
    Did(last, "removeNodeOverride") =>
        LET before == last.before
            p == last.path
        IN  /\ p \notin DOMAIN settings.nodeOverrides
            /\ DOMAIN settings.nodeOverrides = DOMAIN before.nodeOverrides \ {p}
            /\ \A q \in DOMAIN settings.nodeOverrides :
                  settings.nodeOverrides[q] = before.nodeOverrides[q]
            /\ settings.modelKey = before.modelKey
            /\ settings.createdAt = before.createdAt
            /\ p \notin DOMAIN before.nodeOverrides =>
                  settings.nodeOverrides = before.nodeOverrides

\* the entry removed had several fields, and another entry stayed
RemoveWitness ==
    /\ Did(last, "removeNodeOverride")
    /\ last.path \in DOMAIN last.before.nodeOverrides
    /\ Cardinality(DOMAIN last.before.nodeOverrides[last.path]) >= 2
    /\ DOMAIN settings.nodeOverrides # {}

----------------------------------------------------------------------------
\* Key consistency

\* a call that hands the store a model key
KeyGiven == Calls("initForModel") \/ Calls("importSettings")

\* an import that got past parsing and validation and replaced the document
ImportReplaced == Calls("importSettings") /\ last'.cause \in {"none", "write"}

\* an import turned down by JSON.parse or by the schema
ImportTurnedDown == Calls("importSettings") /\ last'.cause \in {"parse", "validation"}

MutatorCalled ==
    /\ clock' = clock + 1
    /\ last'.op \in {"setNodeOverride", "removeNodeOverride", "resetAllVisibility"}

\* every persisted document sits under its own modelKey, and a step rewrites
\* no slot but the one of the in-memory document
SlotsKeyed ==
    /\ \A k \in DOMAIN db' : db'[k].modelKey = k
    /\ \A k \in DOMAIN db \cap DOMAIN db' :
          db'[k] # db[k] => settings' # NoSettings /\ settings'.modelKey = k

\* C30 as stated: after every initForModel/importSettings call the in-memory
\* document's modelKey is the key that call was given, the mutators keep it,
\* and every persisted document is stored under its own modelKey.
KeyOfMostRecentCall ==
    [][/\ KeyGiven /\ settings' # NoSettings => settings'.modelKey = last'.modelKey
       /\ MutatorCalled /\ Loaded => settings'.modelKey = settings.modelKey
       /\ SlotsKeyed]_vars

\* C30: the in-memory document's modelKey is the key given to the most recent
\* initForModel, or importSettings whose text parsed and validated (an import
\* that is turned down leaves the document, and so its modelKey, as it was);
\* the mutators keep it; every persisted document is stored under its own
\* modelKey and a write changes no slot but the in-memory document's.
KeyConsistency ==
    [][/\ Calls("initForModel") \/ ImportReplaced => settings'.modelKey = last'.modelKey
       /\ ImportTurnedDown => settings' = settings
       /\ MutatorCalled /\ Loaded => settings'.modelKey = settings.modelKey
       /\ SlotsKeyed]_vars

\* an import for m2 while m1 is loaded wrote m2's slot and left m1's alone
KeyWitness ==
    /\ Did(last, "importSettings") /\ last.success
    /\ last.before.modelKey = "m1" /\ last.modelKey = "m2"
    /\ settings.modelKey = "m2"
    /\ db["m2"] = settings
    /\ db["m1"] = StoredDocument

----------------------------------------------------------------------------
\* C29: buildPathMapping gives different paths to any two distinct nodes of
\* the tree, siblings or not, whatever the names (names containing "/" or
\* "[k]" included), so that an override stored under the path of one node is
\* never applied by enrichment to another node.
PathsInjective ==
    pc = "done" =>
        \A i \in 1..tree.n : \A j \in 1..tree.n : i # j => pathMap[i] # pathMap[j]

----------------------------------------------------------------------------
\* The format of the paths

\* names that run into the "::" of the counter key
NameAColons == <<"A", ":", ":">>
NameColonsA == <<":", ":", "A">>

KeyLabels ==
    { [name |-> NameA,       type |-> <<"M">>],
      [name |-> NameAColons, type |-> <<"M">>],
      [name |-> NameColonsA, type |-> <<"M">>] }

\* the trees of at most maxNodes nodes over these names
KeyTrees(maxNodes) ==
    UNION { { [n |-> n, parent |-> p, label |-> l, visible |-> [i \in 1..n |-> TRUE]] :
                p \in { q \in [2..n -> 1..n] : \A i \in 2..n : q[i] < i },
                l \in { m \in [1..n -> KeyLabels \cup {RootLabel}] :
                          m[1] = RootLabel /\ \A i \in 2..n : m[i] \in KeyLabels } } :
            n \in 1..maxNodes }

KeysInit ==
    /\ tree \in KeyTrees(MaxKeyNodes)
    /\ stack = <<>>
    /\ pathMap = EmptyMap
    /\ nameCounters = EmptyMap
    /\ pc = "idle"
    /\ yields = 0
    /\ returned = <<>>
    /\ StoreIdle
    /\ BrowseIdle

SpecKeys == KeysInit /\ [][PathNext]_vars

RECURSIVE PreorderAll(_, _)
RECURSIVE Preorder(_, _)
\* the order in which traverse reaches the nodes below and including i
Preorder(t, i) == <<i>> \o PreorderAll(t, Children(t, i))

PreorderAll(t, nodes) ==
    IF nodes = <<>> THEN <<>>
    ELSE Preorder(t, Head(nodes)) \o PreorderAll(t, Tail(nodes))

\* the parentPath argument node i is traversed with
ParentPathOf(i) == IF i = 1 THEN <<>> ELSE pathMap[tree.parent[i]]

\* how many nodes traversed before the one at position n of order have the
\* same (parent path, baseName) pair
EarlierSamePair(order, n) ==
    Cardinality({ m \in 1..(n - 1) :
                    /\ ParentPathOf(order[m]) = ParentPathOf(order[n])
                    /\ BaseName(tree, order[m]) = BaseName(tree, order[n]) })

\* "[k]" for the k-th later node, nothing for the first
IndexSuffix(k) == IF k > 0 THEN <<"[">> \o NumToStr(k) \o <<"]">> ELSE <<>>

\* every node has the path prefix + IndexSuffix(k); bareBelowRoot says
\* whether the children of the traversal root get the bare baseName as prefix
FormatHolds(bareBelowRoot) ==
    \E order \in {Preorder(tree, 1)} :
        \A n \in 1..Len(order) :
            LET i      == order[n]
                bare   == i = 1 \/ (bareBelowRoot /\ tree.parent[i] = 1)
                prefix == IF bare THEN BaseName(tree, i)
                          ELSE ParentPathOf(i) \o <<"/">> \o BaseName(tree, i)
            IN  /\ i \in DOMAIN pathMap
                /\ pathMap[i] = prefix \o IndexSuffix(EarlierSamePair(order, n))

\* C26: with baseName the name if non-empty, else the kind, the first node
\* with a given (parent path, baseName) has the path parentPath/baseName, or
\* just baseName when it is a child of the traversal root; the k-th later
\* one has that prefix followed by "[k]"; the traversal root has a path too.
PathFormat == pc = "done" => FormatHolds(TRUE)

----------------------------------------------------------------------------
\* C25: in the result of filterTreeForBrowseMode every node id occurs at
\* most once, at whatever level, also when a node marked root lies inside
\* the subtree of another node marked root.
NoDuplicateIds ==
    Filtered =>
        \A k \in 1..Len(ResultItems) : \A l \in 1..Len(ResultItems) :
            k # l => ResultItems[k].id # ResultItems[l].id

----------------------------------------------------------------------------
\* Specification of buildPathMapping over object graphs that are deep or
\* not trees: node.children may lead back to an ancestor

\* the depth cap section 4.1 of the specification asks for (about 100); the
\* runs are followed two levels beyond it
DepthCap == MaxDepth - 2

GraphLabel(i) == IF i = 1 THEN RootLabel ELSE [name |-> NameA, type |-> <<"M">>]

\* a chain of len nodes, each the only child of the one before
Chain(len) ==
    [n |-> len,
     children |-> [i \in 1..len |-> IF i < len THEN <<i + 1>> ELSE <<>>],
     label |-> [i \in 1..len |-> GraphLabel(i)],
     visible |-> [i \in 1..len |-> TRUE]]

\* the graphs of at most maxNodes nodes with at most one child each: chains,
\* and graphs in which a node is its own descendant
SmallGraphs(maxNodes) ==
    UNION { { [n |-> n, children |-> c,
               label |-> [i \in 1..n |-> GraphLabel(i)],
               visible |-> [i \in 1..n |-> TRUE]] :
                c \in [1..n -> {<<>>} \cup { <<j>> : j \in 1..n }] } :
            n \in 1..maxNodes }

DeepInit ==
    /\ tree \in SmallGraphs(MaxGraphNodes) \cup {Chain(MaxDepth + 1)}
    /\ stack = <<>>
    /\ pathMap = EmptyMap
    /\ nameCounters = EmptyMap
    /\ pc = "idle"
    /\ yields = 0
    /\ returned = <<>>
    /\ StoreIdle
    /\ BrowseIdle

\* the nesting depth of a traverse call with this path: 0 for the root
DepthOfPath(path) == Cardinality({ k \in 1..Len(path) : path[k] = "/" })

\* one traverse call; the run is followed down to depth MaxDepth
DeepVisit ==
    /\ stack # <<>>
    /\ Len(Head(stack).parentPath) > 0 => DepthOfPath(Head(stack).parentPath) + 1 < MaxDepth
    /\ PathVisit

DeepNext == PathStart \/ DeepVisit \/ PathReturn

SpecDeep == DeepInit /\ [][DeepNext]_vars

\* C23: buildPathMapping ends on every input, a chain deeper than the depth
\* cap and a graph with a cycle among its children included: no node beyond
\* the cap is traversed, so no path is handed out for a depth beyond the cap.
TraversalCapped ==
    \A i \in DOMAIN pathMap : DepthOfPath(pathMap[i]) <= DepthCap

----------------------------------------------------------------------------
\* Specification of filterTreeForBrowseMode, call by call, over item graphs
\* handed to it directly: the children arrays may nest deeply or lead back to
\* an ancestor.  Item 1 is the only top-level item; stack holds the pending
\* calls with their nesting depth.

\* a chain of len unmarked items
ItemChain(len) ==
    [n |-> len,
     children |-> [i \in 1..len |-> IF i < len THEN <<i + 1>> ELSE <<>>],
     menu |-> [i \in 1..len |-> Undefined]]

\* the item graphs of at most maxItems items with at most one child each and
\* any markers
ItemGraphs(maxItems) ==
    UNION { [n : {n},
             children : [1..n -> {<<>>} \cup { <<j>> : j \in 1..n }],
             menu : [1..n -> MenuValues]] : n \in 1..maxItems }

GraphInit ==
    /\ tree \in ItemGraphs(MaxGraphItems) \cup {ItemChain(MaxDepth)}
    /\ stack = <<>>
    /\ pathMap = EmptyMap
    /\ nameCounters = EmptyMap
    /\ pc = "idle"
    /\ yields = 0
    /\ returned = <<>>
    /\ StoreIdle
    /\ BrowseIdle

RECURSIVE LevelCallsFor(_, _, _)
\* the calls of the second pass: level is the nesting, in the result, of the
\* list the call pushes to
LevelCallsFor(items, depth, level) ==
    IF items = <<>> THEN <<>>
    ELSE <<[node |-> Head(items), depth |-> depth, level |-> level]>>
         \o LevelCallsFor(Tail(items), depth, level)

RECURSIVE CallsFor(_, _)
\* the calls a loop over items makes, each at this depth
CallsFor(items, depth) ==
    IF items = <<>> THEN <<>>
    ELSE <<[node |-> Head(items), depth |-> depth]>> \o CallsFor(Tail(items), depth)

\* filterTreeForBrowseMode(items) is called: findRootNodes starts with
\* rootNodes = [] (kept in startingItems) and traverse(items)
GraphStart ==
    /\ browsePc = "idle"
    /\ browsePc' = "finding"
    /\ startingItems' = <<>>
    /\ stack' = CallsFor(<<1>>, 1)
    /\ UNCHANGED <<tree, pathMap, nameCounters, pc, yields, returned,
                   filteredTreeData, storeVars>>

\* findRootNodes.traverse, one item of the loop: collect it if it is marked
\* root, then go into its children
FindVisit ==
    /\ browsePc = "finding"
    /\ stack # <<>>
    /\ Head(stack).depth <= MaxDepth
    /\ LET item == Head(stack).node
       IN  /\ startingItems' = IF tree.menu[item] = "root"
                               THEN Append(startingItems, item) ELSE startingItems
           /\ stack' = CallsFor(tree.children[item], Head(stack).depth + 1) \o Tail(stack)
    /\ UNCHANGED <<tree, pathMap, nameCounters, pc, yields, returned,
                   filteredTreeData, browsePc, storeVars>>

\* findRootNodes returns; startingItems is chosen and processHiddenNodes
\* is called on it
FindReturn ==
    /\ browsePc = "finding"
    /\ stack = <<>>
    /\ browsePc' = "processing"
    /\ \E chosen \in {IF Len(startingItems) > 0 THEN startingItems ELSE <<1>>} :
          /\ startingItems' = chosen
          /\ stack' = LevelCallsFor(chosen, 1, 1)
    /\ UNCHANGED <<tree, pathMap, nameCounters, pc, yields, returned,
                   filteredTreeData, storeVars>>

\* processHiddenNodes, one item of the loop: a disabled item is skipped,
\* any other has processHiddenNodes(item.children) called; a hidden item's
\* children land in the list the item would have been in, a kept item's in
\* its own children.  The result is written down in pre-order, each kept
\* item with the level of the list it is pushed to.
ProcessVisit ==
    /\ browsePc = "processing"
    /\ stack # <<>>
    /\ Head(stack).depth <= MaxDepth
    /\ LET f    == Head(stack)
           item == f.node
           menu == tree.menu[item]
       IN  /\ stack' =
                 IF menu = "disabled" THEN Tail(stack)
                 ELSE LevelCallsFor(tree.children[item], f.depth + 1,
                                    IF menu = "hide" THEN f.level ELSE f.level + 1)
                      \o Tail(stack)
           /\ filteredTreeData' =
                 IF menu \in {"disabled", "hide"} THEN filteredTreeData
                 ELSE Append(filteredTreeData, [id |-> item, level |-> f.level])
    /\ UNCHANGED <<tree, pathMap, nameCounters, pc, yields, returned,
                   startingItems, browsePc, storeVars>>

\* processHiddenNodes has returned: the result is complete
ProcessReturn ==
    /\ browsePc = "processing"
    /\ stack = <<>>
    /\ browsePc' = "done"
    /\ UNCHANGED <<tree, stack, pathMap, nameCounters, pc, yields, returned,
                   startingItems, filteredTreeData, storeVars>>

GraphNext == GraphStart \/ FindVisit \/ FindReturn \/ ProcessVisit \/ ProcessReturn

SpecGraph == GraphInit /\ [][GraphNext]_vars

\* C24: filterTreeForBrowseMode ends on every input, a forest nested deeper
\* than the depth cap and a graph in which an item is its own descendant
\* included: neither the root-discovery pass nor the suppression/promotion
\* pass makes a call nested deeper than the cap.
FilterCapped ==
    browsePc \in {"finding", "processing"} =>
        \A k \in 1..Len(stack) : stack[k].depth <= DepthCap

----------------------------------------------------------------------------
\* Specification of initForModel calls that are not awaited one after the
\* other: a call is suspended at await buildPathMapping(...) and at
\* await getBIMSettings(...), and other calls run in between

Started(k) == k \in DOMAIN pending

At(k, position) == Started(k) /\ pending[k] = position

\* initForModel(k, SceneOf(k)) is called: this._sceneRoot = sceneRoot, then
\* the call waits for buildPathMapping
InitBegin(k) ==
    /\ ~Started(k)
    /\ sceneRoot' = SceneOf(k)
    /\ pending' = Put(pending, k, "mapping")
    /\ UNCHANGED <<settings, pathMapping, enhancedTreeData, db, clock, last, prev,
                   pathVars, browseVars>>

\* buildPathMapping has resolved: this._pathMapping = ..., then the call
\* waits for getBIMSettings
InitMapped(k) ==
    /\ At(k, "mapping")
    /\ pathMapping' = BuildPathMapping(SceneOf(k))
    /\ pending' = Put(pending, k, "loading")
    /\ UNCHANGED <<settings, enhancedTreeData, sceneRoot, db, clock, last, prev,
                   pathVars, browseVars>>

\* getBIMSettings has resolved: this._settings = ..., and
\* this._updateEnhancedTreeData(sceneRoot) with the call's own argument
InitLoaded(k, readOk) ==
    /\ At(k, "loading")
    /\ clock < MaxClock
    /\ \E s \in {LET saved == GetBIMSettings(db, k, readOk)
                 IN  IF saved # NoSettings THEN saved ELSE NewSettings(k, Now)} :
           /\ settings' = s
           /\ enhancedTreeData' =
                 UpdateEnhancedTreeData(s, SceneOf(k), pathMapping, enhancedTreeData)
    /\ last' = [op |-> "initForModel", modelKey |-> k, before |-> settings,
                outcome |-> "returned"]
    /\ clock' = clock + 1
    /\ prev' = IF prev = HistoryOff THEN prev ELSE last
    /\ pending' = Put(pending, k, "done")
    /\ UNCHANGED <<pathMapping, sceneRoot, db, pathVars, browseVars>>

OverlapNext ==
    \/ \E k \in ModelKeys : InitBegin(k)
    \/ \E k \in ModelKeys : InitMapped(k)
    \/ \E k \in ModelKeys, ok \in BOOLEAN : InitLoaded(k, ok)
    \/ \E p \in PathInputs, o \in Partials, ok \in BOOLEAN : SetNodeOverride(p, o, ok)

SpecOverlap == StoreInit /\ [][OverlapNext]_vars

\* the store's document, path map, scene root and enriched tree are all of
\* model k
AllOf(k) ==
    /\ settings # NoSettings /\ settings.modelKey = k
    /\ pathMapping = BuildPathMapping(SceneOf(k))
    /\ sceneRoot = SceneOf(k)
    /\ IdsOf(FlattenItems(enhancedTreeData))
          = IdsOf(FlattenItems(GenerateEnhancedTreeData(SceneOf(k), pathMapping,
                                                        settings.nodeOverrides)))

\* C28: when two initForModel calls for different models have overlapped and
\* both have run to their end, the document's modelKey, the path map, the
\* retained scene root and the enriched tree belong to one and the same
\* model.
OverlapConsistent ==
    (\A k \in ModelKeys : At(k, "done")) => \E k \in ModelKeys : AllOf(k)

====
